---- MODULE Spec2Model ----
(***************************************************************************)
(* A model of manual_data_cleaner: the segment-intersection primitive and  *)
(* the ray-casting classifier of src/src/inside_curve.rs, and the          *)
(* application state of src/src/app.rs (dataset, exclusion curve,          *)
(* exclusion and export of consolidated exclusion periods).                *)
(*                                                                         *)
(* Coordinates and sample values are f64 in the program; the model draws   *)
(* them from small integers, on which f64 arithmetic is exact.  A Point    *)
(* [x, y] is the tuple <<x, y>>.                                           *)
(***************************************************************************)
EXTENDS Integers, Sequences, FiniteSets, TLC

VARIABLES
    \* ManualDataCleanerApp (src/src/app.rs:32-49)
    msg, xaxis, yaxis, excludex, excludey, file_loaded, timeseries, index,
    reason, exclusion_names, time_buffer, exclusion_curve,
    exclusion_curve_is_closed,
    \* the records export_exclusions wrote to the chosen file
    merged,
    \* TRUE once the process has panicked (unwrap / index out of range)
    panicked,
    \* a call of do_intersect: its four arguments and its result
    args, hit,
    \* a call of check_inside_curve: its arguments and its result; in the
    \* application, the locals of exclude_data (app.rs:299-301) in the frame
    \* that just ended, empty when the frame did not reach them
    curve, data, is_inside,
    \* position of the call of a pure function: "call" before, "return" after
    pc

vars == <<msg, xaxis, yaxis, excludex, excludey, file_loaded, timeseries,
          index, reason, exclusion_names, time_buffer, exclusion_curve,
          exclusion_curve_is_closed, merged, panicked, args, hit, curve,
          data, is_inside, pc>>

appVars == <<msg, xaxis, yaxis, excludex, excludey, file_loaded, timeseries,
             index, reason, exclusion_names, time_buffer, exclusion_curve,
             exclusion_curve_is_closed, merged, panicked>>

----------------------------------------------------------------------------
(* Generic helpers *)

Max(a, b) == IF a >= b THEN a ELSE b

Min(a, b) == IF a <= b THEN a ELSE b

Reverse(s) == [i \in 1..Len(s) |-> s[Len(s) + 1 - i]]

SeqsUpTo(S, lo, hi) == UNION {[1..n -> S] : n \in lo..hi}

----------------------------------------------------------------------------
(* src/src/inside_curve.rs *)

\* on_segment with the y-range test forgotten
on_segment_x_only(p, q, r) ==
    /\ q[1] <= Max(p[1], r[1])
    /\ q[1] >= Min(p[1], r[1])

\* q lies in the closed bounding box of p and r
on_segment(p, q, r) ==
    /\ q[1] <= Max(p[1], r[1])
    /\ q[1] >= Min(p[1], r[1])
    /\ q[2] <= Max(p[2], r[2])
    /\ q[2] >= Min(p[2], r[2])

orientation(p, q, r) ==
    LET val == (q[2] - p[2]) * (r[1] - q[1]) - (q[1] - p[1]) * (r[2] - q[2])
    IN  IF val > 0 THEN "Clockwise"
        ELSE IF val < 0 THEN "Counterclockwise"
        ELSE "Colinear"

\* do_intersect whose general case tests only the side of p2 and q2
do_intersect_one_sided(a, b, c, d) ==
    LET o1 == orientation(a, b, c)
        o2 == orientation(a, b, d)
        o3 == orientation(c, d, a)
        o4 == orientation(c, d, b)
    IN  IF o1 # o2 THEN TRUE
        ELSE \/ (o1 = "Colinear" /\ on_segment(a, c, b))
             \/ (o2 = "Colinear" /\ on_segment(a, d, b))
             \/ (o3 = "Colinear" /\ on_segment(c, a, d))
             \/ (o4 = "Colinear" /\ on_segment(c, b, d))

do_intersect(a, b, c, d) ==
    LET o1 == orientation(a, b, c)
        o2 == orientation(a, b, d)
        o3 == orientation(c, d, a)
        o4 == orientation(c, d, b)
    IN  IF o1 # o2 /\ o3 # o4 THEN TRUE
        ELSE \/ (o1 = "Colinear" /\ on_segment(a, c, b))
             \/ (o2 = "Colinear" /\ on_segment(a, d, b))
             \/ (o3 = "Colinear" /\ on_segment(c, a, d))
             \/ (o4 = "Colinear" /\ on_segment(c, b, d))

\* the ray origin of check_inside_curve, and the coordinate convert_points
\* gives a pair that is not Valid/Valid
OutsideCoord == -100

outside == <<OutsideCoord, OutsideCoord>>

\* n_crossings is a u8
U8Range == 256

\* curve.windows(2).chain(once(&close_loop[..])): the consecutive pairs, then
\* the edge from the last point to the first
Segments(c) ==
    [i \in 1..Len(c) |-> IF i < Len(c) THEN <<c[i], c[i + 1]>>
                         ELSE <<c[Len(c)], c[1]>>]

RECURSIVE SumU8(_, _)
SumU8(s, n) ==
    IF n = 0 THEN 0 ELSE (SumU8(s, n - 1) + s[n]) % U8Range

n_crossings(c, p) ==
    LET segs == Segments(c)
        bits == [i \in 1..Len(segs) |->
                    IF do_intersect(outside, p, segs[i][1], segs[i][2])
                    THEN 1 ELSE 0]
    IN  SumU8(bits, Len(bits))

\* check_inside_curve closing the loop on curve[1] instead of curve[0]
check_inside_curve_close_on_second(c, d) ==
    LET segs == [i \in 1..Len(c) |-> IF i < Len(c) THEN <<c[i], c[i + 1]>>
                                     ELSE <<c[Len(c)], c[2]>>]
        cnt(p) == Cardinality({i \in 1..Len(segs) :
                     do_intersect(outside, p, segs[i][1], segs[i][2])})
    IN  [k \in 1..Len(d) |-> cnt(d[k]) % 2 = 1]

check_inside_curve(c, d) ==
    [k \in 1..Len(d) |-> n_crossings(c, d[k]) % 2 = 1]

----------------------------------------------------------------------------
(* Default for ManualDataCleanerApp, src/src/app.rs:51-72 *)

DefaultTimeBuffer == 10

AppDefault ==
    /\ msg = ""
    /\ xaxis = 0
    /\ yaxis = 0
    /\ excludex = TRUE
    /\ excludey = TRUE
    /\ file_loaded = FALSE
    /\ timeseries = <<>>
    /\ index = <<>>
    /\ reason = ""
    /\ exclusion_names = <<>>
    /\ time_buffer = DefaultTimeBuffer
    /\ exclusion_curve = <<>>
    /\ exclusion_curve_is_closed = FALSE
    /\ merged = <<>>
    /\ panicked = FALSE

NoIntersectCall == args = <<>> /\ hit = FALSE

NoClassifyCall == curve = <<>> /\ data = <<>> /\ is_inside = <<>>

\* a frame of update() that does not reach exclude_data's call of
\* check_inside_curve: its locals curve, data and is_inside do not exist
NoCallInFrame ==
    /\ curve' = <<>>
    /\ data' = <<>>
    /\ is_inside' = <<>>
    /\ UNCHANGED <<args, hit, pc>>

----------------------------------------------------------------------------
(* do_intersect as a call: SpecIntersect *)

Coords == {0, 1, 2}

Grid == Coords \X Coords

\* the segment pairs of tests::test_do_intersect (inside_curve.rs:90-115)
TestSegs == {
    << <<-1, 0>>, <<1, 0>>, <<0, 1>>, <<0, -1>> >>,
    << <<2, 0>>, <<3, 0>>, <<0, 1>>, <<0, -1>> >>,
    << <<0, 0>>, <<3, 0>>, <<0, 1>>, <<0, -1>> >>,
    << <<0, 0>>, <<3, 0>>, <<0, 0>>, <<0, -1>> >> }

\* collinear segments with a gap between them, and touching end to end
CollinearSegs == {
    << <<0, 0>>, <<1, 1>>, <<2, 2>>, <<3, 3>> >>,
    << <<2, 0>>, <<3, 0>>, <<1, 0>>, <<0, 0>> >>,
    << <<0, 3>>, <<0, 2>>, <<0, 0>>, <<0, 1>> >>,
    << <<0, 0>>, <<1, 1>>, <<1, 1>>, <<3, 3>> >> }

InitIntersect ==
    /\ AppDefault
    /\ NoClassifyCall
    /\ args \in (Grid \X Grid \X Grid \X Grid) \cup TestSegs \cup CollinearSegs
    /\ hit = FALSE
    /\ pc = "call"

Intersect ==
    /\ pc = "call"
    /\ hit' = do_intersect(args[1], args[2], args[3], args[4])
    /\ pc' = "return"
    /\ UNCHANGED <<args, curve, data, is_inside>>
    /\ UNCHANGED appVars

NextIntersect == Intersect

SpecIntersect == InitIntersect /\ [][NextIntersect]_vars

----------------------------------------------------------------------------
(* check_inside_curve as a call: SpecClassify *)

MaxCurveLen == 3

MaxQueries == 2

CurvePts == {<<0, 0>>, <<4, 0>>, <<2, 4>>, <<0, 4>>, <<4, 4>>}

QueryPts == {<<2, 1>>, <<1, 2>>, <<3, 3>>, <<5, 5>>}

Square == << <<0, 0>>, <<0, 10>>, <<10, 10>>, <<10, 0>> >>

Triangle == << <<0, 0>>, <<4, 0>>, <<2, 4>> >>

InitClassify ==
    /\ AppDefault
    /\ NoIntersectCall
    /\ curve \in SeqsUpTo(CurvePts, 3, MaxCurveLen) \cup {Square, Triangle}
    /\ data \in SeqsUpTo(QueryPts, 1, MaxQueries)
                  \cup {<< <<5, 5>>, <<15, 15>> >>, << <<2, 1>>, <<5, 5>> >>}
    /\ is_inside = <<>>
    /\ pc = "call"

Classify ==
    /\ pc = "call"
    /\ is_inside' = check_inside_curve(curve, data)
    /\ pc' = "return"
    /\ UNCHANGED <<args, hit, curve, data>>
    /\ UNCHANGED appVars

NextClassify == Classify

SpecClassify == InitClassify /\ [][NextClassify]_vars

----------------------------------------------------------------------------
(* src/src/app.rs: the data model *)

\* enum DataPoint (app.rs:13-17)
Valid(v) == <<"Valid", v>>

NaN == <<"NaN">>

Excluded(v, r) == <<"Excluded", v, r>>

IsValid(dp) == dp[1] = "Valid"

IsExcluded(dp) == dp[1] = "Excluded"

\* struct TimeSeries (app.rs:19-22).  A name is modelled as the sequence of
\* its '~'-separated tokens: "M1~ws~h1" is <<"M1", "ws", "h1">>.
TimeSeries(name, d) == [name |-> name, data |-> d]

\* name.split('~') has 2 or 3 parts: Ok((first, second)); otherwise Err
unwrap_name(name) ==
    IF Len(name) \in {2, 3} THEN <<"Ok", <<name[1], name[2]>>>>
    ELSE <<"Err", "Unsupported number of names">>

\* an index entry is the text "YYYY-MM-DD HH:MM" of one fixed day, modelled
\* as <<HH, MM>>; NaiveDateTime::parse_from_str gives the instant, counted
\* in minutes from that day's midnight
MinutesPerHour == 60

parse_from_str(timestamp) == timestamp[1] * MinutesPerHour + timestamp[2]

----------------------------------------------------------------------------
(* export_exclusions, src/src/app.rs:189-274 *)

RECURSIVE ConcatMap(_, _, _)
ConcatMap(F(_), s, n) ==
    IF n = 0 THEN <<>> ELSE ConcatMap(F, s, n - 1) \o F(s[n])

\* lines 190-213: one (mast, sensor, reason, time_ini, time_end) per Excluded
\* sample, series by series and row by row (zip stops at the shorter of data
\* and index)
Exclusions(tss, idx, buf) ==
    LET OfSeries(ts) ==
            LET n    == Min(Len(ts.data), Len(idx))
                rows == SelectSeq([i \in 1..n |-> i],
                                  LAMBDA i : IsExcluded(ts.data[i]))
            IN  [k \in 1..Len(rows) |->
                    LET time == parse_from_str(idx[rows[k]])
                        ms   == unwrap_name(ts.name)[2]
                    IN  <<ms[1], ms[2], ts.data[rows[k]][3],
                          time - buf, time + buf>>]
    IN  ConcatMap(OfSeries, tss, Len(tss))

\* the unwrap() of line 204 panics for a series that has an Excluded sample
\* (zipped with an index entry) and a name of 1 or of more than 3 tokens
ExportPanicsOn(tss, idx) ==
    \E k \in 1..Len(tss) :
        /\ unwrap_name(tss[k].name)[1] = "Err"
        /\ \E i \in 1..Min(Len(tss[k].data), Len(idx)) :
                IsExcluded(tss[k].data[i])

\* lines 215-221: the keys of the HashMap, and the Vec of one key in
\* insertion order
GroupKeys(excl) == {<<excl[i][1], excl[i][2], excl[i][3]>> : i \in 1..Len(excl)}

GroupRanges(excl, key) ==
    LET mine == SelectSeq(excl, LAMBDA e : <<e[1], e[2], e[3]>> = key)
    IN  [i \in 1..Len(mine) |-> <<mine[i][4], mine[i][5]>>]

\* the sort of line 226 left out
sort_by_start_omitted(ranges) == ranges

\* line 226: ranges.sort_by_key(|(start, _)| *start), a stable sort
RECURSIVE InsertByStart(_, _)
InsertByStart(sorted, r) ==
    IF sorted = <<>> THEN <<r>>
    ELSE IF sorted[Len(sorted)][1] <= r[1] THEN Append(sorted, r)
    ELSE Append(InsertByStart(SubSeq(sorted, 1, Len(sorted) - 1), r),
                sorted[Len(sorted)])

RECURSIVE SortPrefix(_, _)
SortPrefix(ranges, n) ==
    IF n = 0 THEN <<>> ELSE InsertByStart(SortPrefix(ranges, n - 1), ranges[n])

sort_by_start(ranges) == SortPrefix(ranges, Len(ranges))

\* lines 228-245: the sweep over ranges[1..], from the running interval cur
\* and the intervals emitted so far
RECURSIVE Sweep(_, _, _, _)
Sweep(ranges, i, cur, emitted) ==
    IF i > Len(ranges) THEN <<emitted, cur>>
    ELSE IF ranges[i][1] <= cur[2]
         THEN Sweep(ranges, i + 1, <<cur[1], Max(cur[2], ranges[i][2])>>,
                    emitted)
         ELSE Sweep(ranges, i + 1, ranges[i], Append(emitted, cur))

\* the sweep merging only on start < current_end
RECURSIVE SweepExclusive(_, _, _, _)
SweepExclusive(ranges, i, cur, emitted) ==
    IF i > Len(ranges) THEN <<emitted, cur>>
    ELSE IF ranges[i][1] < cur[2]
         THEN SweepExclusive(ranges, i + 1,
                             <<cur[1], Max(cur[2], ranges[i][2])>>, emitted)
         ELSE SweepExclusive(ranges, i + 1, ranges[i], Append(emitted, cur))

merge_sorted_exclusive(sorted) ==
    LET done == SweepExclusive(sorted, 2, sorted[1], <<>>)
    IN  Append(done[1], done[2])

\* the final push of lines 247-254 left out
merge_sorted_no_final_push(sorted) == Sweep(sorted, 2, sorted[1], <<>>)[1]

\* lines 228-254 for one group: sweep, then push the running interval
merge_sorted(sorted) ==
    LET done == Sweep(sorted, 2, sorted[1], <<>>)
    IN  Append(done[1], done[2])

\* lines 225-254 for one group key
MergeGroup(excl, key, now) ==
    LET out == merge_sorted(sort_by_start(GroupRanges(excl, key)))
    IN  [i \in 1..Len(out) |->
            <<key[1], key[2], key[3], out[i][1], out[i][2], now>>]

\* lines 223-255: `order` is the order in which groups.into_iter() yields the
\* keys
Merged(excl, order, now) ==
    LET OfKey(key) == MergeGroup(excl, key, now)
    IN  ConcatMap(OfKey, order, Len(order))

\* the orders a HashMap with the default RandomState can iterate its keys in
IterationOrders(keys) ==
    {o \in [1..Cardinality(keys) -> keys] :
        \A i, j \in 1..Cardinality(keys) : o[i] = o[j] => i = j}

ExportedMsg == "Exclusions exported successfully"

\* Local::now() at the export, in minutes
Clock == {2000}

\* the Export button with a file chosen and written, lines 443-448
Export ==
    /\ pc = "ui"
    /\ ~panicked
    /\ ~ExportPanicsOn(timeseries, index)
    /\ LET excl == Exclusions(timeseries, index, time_buffer)
       IN  \E order \in IterationOrders(GroupKeys(excl)) : \E now \in Clock :
               merged' = Merged(excl, order, now)
    /\ msg' = ExportedMsg
    /\ UNCHANGED <<xaxis, yaxis, excludex, excludey, file_loaded, timeseries,
                   index, reason, exclusion_names, time_buffer,
                   exclusion_curve, exclusion_curve_is_closed, panicked>>
    /\ NoCallInFrame

\* the Export button when unwrap_name(..).unwrap() panics
ExportPanics ==
    /\ pc = "ui"
    /\ ~panicked
    /\ ExportPanicsOn(timeseries, index)
    /\ panicked' = TRUE
    /\ UNCHANGED <<msg, xaxis, yaxis, excludex, excludey, file_loaded,
                   timeseries, index, reason, exclusion_names, time_buffer,
                   exclusion_curve, exclusion_curve_is_closed, merged>>
    /\ NoCallInFrame

\* the Export button with the file dialog cancelled, lines 449-451
ExportCancelled ==
    /\ pc = "ui"
    /\ ~panicked
    /\ msg' = "No file selected."
    /\ UNCHANGED <<xaxis, yaxis, excludex, excludey, file_loaded, timeseries,
                   index, reason, exclusion_names, time_buffer,
                   exclusion_curve, exclusion_curve_is_closed, merged,
                   panicked>>
    /\ NoCallInFrame

----------------------------------------------------------------------------
(* export_exclusions over datasets with exclusions: SpecExport *)

\* the rows of the dataset, and the most Excluded samples it holds
Rows == {1, 2, 3}

MaxExcluded == 3

TimeStamps == {<<10, 0>>, <<10, 10>>, <<10, 15>>, <<11, 0>>}

Buffers == {0, 5, 10}

\* the names of the two series: same mast and sensor, different masts, and a
\* second name unwrap_name rejects
SeriesNames == {
    << <<"M1", "ws", "h1">>, <<"M1", "ws", "h2">> >>,
    << <<"M1", "ws", "h1">>, <<"M2", "ws">> >>,
    << <<"M1", "ws", "h1">>, <<"M2">> >> }

FirstSamples == {Valid(1), Excluded(1, "a"), Excluded(1, "b")}

SecondSamples == {Valid(2), Excluded(2, "a")}

\* an index in strictly increasing time order
Chronological(idx) ==
    \A i, j \in 1..Len(idx) :
        i < j => parse_from_str(idx[i]) < parse_from_str(idx[j])

NumExcluded(tss) ==
    Cardinality({<<k, i>> \in (1..Len(tss)) \X Rows : IsExcluded(tss[k].data[i])})

InitExport ==
    /\ msg = ""
    /\ xaxis = 0
    /\ yaxis = 0
    /\ excludex = TRUE
    /\ excludey = TRUE
    /\ file_loaded = TRUE
    /\ \E names \in SeriesNames :
       \E d1 \in [Rows -> FirstSamples] :
       \E d2 \in [Rows -> SecondSamples] :
            timeseries = <<TimeSeries(names[1], d1), TimeSeries(names[2], d2)>>
    /\ NumExcluded(timeseries) <= MaxExcluded
    /\ index \in {idx \in [Rows -> TimeStamps] : Chronological(idx)
                                                  \/ Chronological(Reverse(idx))}
    /\ reason = ""
    /\ exclusion_names = <<>>
    /\ time_buffer \in Buffers
    /\ exclusion_curve = <<>>
    /\ exclusion_curve_is_closed = FALSE
    /\ merged = <<>>
    /\ panicked = FALSE
    /\ NoIntersectCall
    /\ NoClassifyCall
    /\ pc = "ui"

NextExport == Export \/ ExportPanics \/ ExportCancelled

SpecExport == InitExport /\ [][NextExport]_vars

----------------------------------------------------------------------------
(* parse_data_file, src/src/app.rs:79-146 *)

\* self.nan, the missing-value sentinel (never edited in the model)
NanSentinel == 99999

\* A file is [readable, lines]: lines[1] is the header (the names of the
\* columns after the first), every other line is <<index text, cells>>, a
\* cell being <<"num", v>> or <<"bad">> (text that does not parse as f64).

\* lines 126-142 for the cells of one line, from cell i on
RECURSIVE ParseCells(_, _, _)
ParseCells(cells, i, tss) ==
    IF i > Len(cells) THEN <<"Ok", tss>>
    ELSE IF i > Len(tss) THEN ParseCells(cells, i + 1, tss)
    ELSE IF cells[i][1] = "bad" THEN <<"Err", tss>>
    ELSE LET num == cells[i][2]
             dp  == IF num = NanSentinel THEN NaN ELSE Valid(num)
         IN  ParseCells(cells, i + 1,
                 [tss EXCEPT ![i].data = Append(@, dp)])

\* lines 114-143 from line k on
RECURSIVE ParseRows(_, _, _, _)
ParseRows(lines, k, idx, tss) ==
    IF k > Len(lines) THEN <<"Ok", idx, tss>>
    ELSE LET got == ParseCells(lines[k][2], 1, tss)
         IN  IF got[1] = "Err" THEN <<"Err", Append(idx, lines[k][1]), got[2]>>
             ELSE ParseRows(lines, k + 1, Append(idx, lines[k][1]), got[2])

\* <<result, index, timeseries>> after parse_data_file: both are cleared
\* first, and an error leaves what was parsed before it
parse_data_file(file) ==
    IF ~file.readable \/ file.lines = <<>> THEN <<"Err", <<>>, <<>>>>
    ELSE ParseRows(file.lines, 2, <<>>,
             [k \in 1..Len(file.lines[1]) |->
                 TimeSeries(file.lines[1][k], <<>>)])

----------------------------------------------------------------------------
(* The per-frame code of update(), src/src/app.rs:323-531 *)

\* lines 366-371: the names of the series, or two empty options
OptionsLen(tss) == IF tss = <<>> THEN 2 ELSE Len(tss)

\* lines 372-375: the axes are reset while no file was loaded successfully
ResetAxis(tss, loaded, axis, dflt) ==
    IF Len(tss) > 1 /\ ~loaded THEN dflt ELSE axis

\* lines 379 and 396: options[self.xaxis], options[self.yaxis]
SidePanelPanics(tss, xa, ya) ==
    xa >= OptionsLen(tss) \/ ya >= OptionsLen(tss)

\* lines 464-466 with 152-153: self.timeseries[self.xaxis] in process_points
PlotPanics(tss, loaded, xa, ya) ==
    loaded /\ (xa >= Len(tss) \/ ya >= Len(tss))

\* process_points (lines 148-158) with the handler of convert_points
convert_points(tss, xa, ya) ==
    LET xs == tss[xa + 1].data
        ys == tss[ya + 1].data
    IN  [i \in 1..Min(Len(xs), Len(ys)) |->
            IF IsValid(xs[i]) /\ IsValid(ys[i]) THEN <<xs[i][2], ys[i][2]>>
            ELSE outside]

\* process_points with the handler of extract_valid_points
extract_valid_points(tss, xa, ya) ==
    LET xs == tss[xa + 1].data
        ys == tss[ya + 1].data
        both == SelectSeq([i \in 1..Min(Len(xs), Len(ys)) |-> i],
                          LAMBDA i : IsValid(xs[i]) /\ IsValid(ys[i]))
    IN  [k \in 1..Len(both) |-> <<xs[both[k]][2], ys[both[k]][2]>>]

\* exclude_timeseries_data replacing Excluded samples as well
exclude_timeseries_data_overwrite(tss, axis, inside, r) ==
    [tss EXCEPT ![axis + 1].data =
        [i \in 1..Len(@) |->
            IF i <= Len(inside) /\ inside[i] /\ (IsValid(@[i]) \/ IsExcluded(@[i]))
            THEN Excluded(@[i][2], r) ELSE @[i]]]

\* exclude_timeseries_data (lines 276-289)
exclude_timeseries_data(tss, axis, inside, r) ==
    [tss EXCEPT ![axis + 1].data =
        [i \in 1..Len(@) |->
            IF i <= Len(inside) /\ inside[i] /\ IsValid(@[i])
            THEN Excluded(@[i][2], r) ELSE @[i]]]

Contains(seq, x) == \E i \in 1..Len(seq) : seq[i] = x

\* the click closes the curve: its distance to the first point is below 0.3
\* (lines 503-506), on integer coordinates 100 * dist^2 < 9
CloseDistTenths == 3

ClosesCurve(c, pos) ==
    /\ Len(c) > 2
    /\ ((pos[1] - c[1][1]) * (pos[1] - c[1][1])
          + (pos[2] - c[1][2]) * (pos[2] - c[1][2])) * 100
            < CloseDistTenths * CloseDistTenths

----------------------------------------------------------------------------
(* The application: Spec *)

\* the longest curve drawn
MaxDrawn == 4

Stamp1 == <<10, 0>>

Stamp2 == <<10, 10>>

Name1 == <<"M1", "ws", "h1">>

Name2 == <<"M1", "wd", "h1">>

Num(v) == <<"num", v>>

\* two series and two rows, the second row with the missing-value sentinel
GoodFile ==
    [readable |-> TRUE,
     lines |-> << <<Name1, Name2>>,
                  <<Stamp1, <<Num(2), Num(1)>>>>,
                  <<Stamp2, <<Num(NanSentinel), Num(1)>>>> >>]

\* a cell of the first data line is not a number
BadFile ==
    [readable |-> TRUE,
     lines |-> << <<Name1, Name2>>, <<Stamp1, <<Num(2), <<"bad">>>>>> >>]

UnreadableFile == [readable |-> FALSE, lines |-> <<>>]

Files == {GoodFile, BadFile, UnreadableFile}

Reasons == {"", "a", "b"}

\* where the user E+clicks (the plot can be panned and zoomed to any bounds):
\* the corners of a triangle that holds every pair of Valid samples of
\* GoodFile but (2,2), one corner being the point (-100,-100)
ClickPts == {outside, <<4, 0>>, <<0, 4>>}

Alive == pc = "ui" /\ ~panicked

\* the axes at the start of a frame, after lines 372-375
FrameX == ResetAxis(timeseries, file_loaded, xaxis, 0)

FrameY == ResetAxis(timeseries, file_loaded, yaxis, 1)

\* the application as constructed
InitDefault ==
    /\ AppDefault
    /\ NoIntersectCall
    /\ NoClassifyCall
    /\ pc = "ui"

\* the application after GoodFile was loaded into the default state
Init ==
    /\ msg = "File loaded successfully"
    /\ xaxis = 0
    /\ yaxis = 0
    /\ excludex = TRUE
    /\ excludey = TRUE
    /\ file_loaded = TRUE
    /\ timeseries = parse_data_file(GoodFile)[3]
    /\ index = parse_data_file(GoodFile)[2]
    /\ reason = ""
    /\ exclusion_names = <<>>
    /\ time_buffer = DefaultTimeBuffer
    /\ exclusion_curve = <<>>
    /\ exclusion_curve_is_closed = FALSE
    /\ merged = <<>>
    /\ panicked = FALSE
    /\ NoIntersectCall
    /\ NoClassifyCall
    /\ pc = "ui"

\* "Load File" with a file picked (lines 337-346), then the rest of the
\* frame: the axis reset, the combo boxes and the plot
LoadFile ==
    /\ Alive
    /\ \E file \in Files :
        LET got    == parse_data_file(file)
            loaded == file_loaded \/ got[1] = "Ok"
            xa     == ResetAxis(got[3], loaded, xaxis, 0)
            ya     == ResetAxis(got[3], loaded, yaxis, 1)
        IN  /\ index' = got[2]
            /\ timeseries' = got[3]
            /\ msg' = IF got[1] = "Ok" THEN "File loaded successfully"
                      ELSE "Load error"
            /\ file_loaded' = loaded
            /\ xaxis' = xa
            /\ yaxis' = ya
            /\ panicked' = (SidePanelPanics(got[3], xa, ya)
                              \/ PlotPanics(got[3], loaded, xa, ya))
    /\ UNCHANGED <<excludex, excludey, reason, exclusion_names, time_buffer,
                   exclusion_curve, exclusion_curve_is_closed, merged>>
    /\ NoCallInFrame

\* "Load File" with the dialog cancelled (lines 347-349)
LoadCancelled ==
    /\ Alive
    /\ msg' = "No file selected."
    /\ xaxis' = FrameX
    /\ yaxis' = FrameY
    /\ UNCHANGED <<excludex, excludey, file_loaded, timeseries, index, reason,
                   exclusion_names, time_buffer, exclusion_curve,
                   exclusion_curve_is_closed, merged, panicked>>
    /\ NoCallInFrame

\* an entry of the x-axis combo box chosen (lines 378-389)
SelectXAxis ==
    /\ Alive
    /\ \E i \in 0..(OptionsLen(timeseries) - 1) : xaxis' = i
    /\ yaxis' = FrameY
    /\ panicked' = PlotPanics(timeseries, file_loaded, xaxis', yaxis')
    /\ UNCHANGED <<msg, excludex, excludey, file_loaded, timeseries, index,
                   reason, exclusion_names, time_buffer, exclusion_curve,
                   exclusion_curve_is_closed, merged>>
    /\ NoCallInFrame

\* an entry of the y-axis combo box chosen (lines 395-406)
SelectYAxis ==
    /\ Alive
    /\ \E i \in 0..(OptionsLen(timeseries) - 1) : yaxis' = i
    /\ xaxis' = FrameX
    /\ panicked' = PlotPanics(timeseries, file_loaded, xaxis', yaxis')
    /\ UNCHANGED <<msg, excludex, excludey, file_loaded, timeseries, index,
                   reason, exclusion_names, time_buffer, exclusion_curve,
                   exclusion_curve_is_closed, merged>>
    /\ NoCallInFrame

\* the check boxes "Exclude x axis" and "Exclude y axis" (lines 391, 408)
ToggleExcludeX ==
    /\ Alive
    /\ excludex' = ~excludex
    /\ xaxis' = FrameX
    /\ yaxis' = FrameY
    /\ UNCHANGED <<msg, excludey, file_loaded, timeseries, index, reason,
                   exclusion_names, time_buffer, exclusion_curve,
                   exclusion_curve_is_closed, merged, panicked>>
    /\ NoCallInFrame

ToggleExcludeY ==
    /\ Alive
    /\ excludey' = ~excludey
    /\ xaxis' = FrameX
    /\ yaxis' = FrameY
    /\ UNCHANGED <<msg, excludex, file_loaded, timeseries, index, reason,
                   exclusion_names, time_buffer, exclusion_curve,
                   exclusion_curve_is_closed, merged, panicked>>
    /\ NoCallInFrame

\* the reason text edited (lines 412-417)
EditReason ==
    /\ Alive
    /\ \E r \in Reasons : r # reason /\ reason' = r
    /\ xaxis' = FrameX
    /\ yaxis' = FrameY
    /\ UNCHANGED <<msg, excludex, excludey, file_loaded, timeseries, index,
                   exclusion_names, time_buffer, exclusion_curve,
                   exclusion_curve_is_closed, merged, panicked>>
    /\ NoCallInFrame

\* the mask exclude_data computes (lines 299-301)
ExclusionMask ==
    check_inside_curve(exclusion_curve, convert_points(timeseries, FrameX, FrameY))

\* exclude_data without the test of the closed flag
ExcludeRejected_open_accepted ==
    \/ reason = ""
    \/ Len(exclusion_curve) < 3

\* exclude_data rejects (lines 292-297)
ExcludeRejected ==
    \/ reason = ""
    \/ Len(exclusion_curve) < 3
    \/ ~exclusion_curve_is_closed

\* the series after lines 307-313
ExcludedSeries ==
    LET afterx == IF excludex
                  THEN exclude_timeseries_data(timeseries, FrameX,
                                               ExclusionMask, reason)
                  ELSE timeseries
    IN  IF excludey
        THEN exclude_timeseries_data(afterx, FrameY, ExclusionMask, reason)
        ELSE afterx

\* "Exclude" clicked: exclude_data (lines 291-319)
ExcludeData ==
    /\ Alive
    /\ xaxis' = FrameX
    /\ yaxis' = FrameY
    /\ IF ExcludeRejected
       THEN /\ msg' = (IF reason = "" THEN "Write a reason for exclusion"
                       ELSE IF Len(exclusion_curve) < 3
                       THEN "At least 3 points are needed to define an exclusion area"
                       ELSE "The exclusion area must be closed")
            /\ UNCHANGED <<timeseries, exclusion_names, exclusion_curve,
                           exclusion_curve_is_closed>>
            /\ curve' = <<>>
            /\ data' = <<>>
            /\ is_inside' = <<>>
       ELSE /\ curve' = exclusion_curve
            /\ data' = convert_points(timeseries, FrameX, FrameY)
            /\ is_inside' = ExclusionMask
            /\ timeseries' = ExcludedSeries
            /\ exclusion_names' = (IF Contains(exclusion_names, reason)
                                   THEN exclusion_names
                                   ELSE Append(exclusion_names, reason))
            /\ exclusion_curve' = <<>>
            /\ exclusion_curve_is_closed' = FALSE
            /\ msg' = "Data excluded by '" \o reason \o "' reason"
    /\ UNCHANGED <<excludex, excludey, file_loaded, index, reason,
                   time_buffer, merged, panicked>>
    /\ UNCHANGED <<args, hit, pc>>

\* "Clear selection" clicked (lines 428-433)
ClearSelection ==
    /\ Alive
    /\ exclusion_curve' = <<>>
    /\ exclusion_curve_is_closed' = FALSE
    /\ xaxis' = FrameX
    /\ yaxis' = FrameY
    /\ UNCHANGED <<msg, excludex, excludey, file_loaded, timeseries, index,
                   reason, exclusion_names, time_buffer, merged, panicked>>
    /\ NoCallInFrame

\* E+click in the plot (lines 464-517): the plot is shown when a file is
\* loaded and some pair of samples is Valid/Valid
PlotClick ==
    /\ Alive
    /\ file_loaded
    /\ extract_valid_points(timeseries, FrameX, FrameY) # <<>>
    /\ Len(exclusion_curve) < MaxDrawn
    /\ \E pos \in ClickPts :
        IF ClosesCurve(exclusion_curve, pos)
        THEN /\ exclusion_curve_is_closed' = TRUE
             /\ exclusion_curve' = Append(exclusion_curve, exclusion_curve[1])
        ELSE /\ exclusion_curve_is_closed' = exclusion_curve_is_closed
             /\ exclusion_curve' = Append(exclusion_curve, pos)
    /\ xaxis' = FrameX
    /\ yaxis' = FrameY
    /\ UNCHANGED <<msg, excludex, excludey, file_loaded, timeseries, index,
                   reason, exclusion_names, time_buffer, merged, panicked>>
    /\ NoCallInFrame

\* a frame without input: only the axis reset of lines 372-375 acts
IdleFrame ==
    /\ Alive
    /\ <<FrameX, FrameY>> # <<xaxis, yaxis>>
    /\ xaxis' = FrameX
    /\ yaxis' = FrameY
    /\ UNCHANGED <<msg, excludex, excludey, file_loaded, timeseries, index,
                   reason, exclusion_names, time_buffer, exclusion_curve,
                   exclusion_curve_is_closed, merged, panicked>>
    /\ NoCallInFrame

\* one loaded dataset: axis selection, the exclusion widgets, drawing,
\* clearing and excluding.  The x axis stays on the first series and the
\* y axis is selected among both (the x-axis combo box acts in SpecLoad).
Next ==
    \/ SelectYAxis
    \/ ToggleExcludeX
    \/ ToggleExcludeY
    \/ EditReason
    \/ ExcludeData
    \/ ClearSelection
    \/ PlotClick

Spec == Init /\ [][Next]_vars

\* loading files into the application as constructed
NextLoad ==
    \/ LoadFile
    \/ LoadCancelled
    \/ SelectXAxis
    \/ SelectYAxis
    \/ ClearSelection
    \/ PlotClick
    \/ IdleFrame

SpecLoad == InitDefault /\ [][NextLoad]_vars

----------------------------------------------------------------------------
(* Claims about export_exclusions *)

\* the exclusion events of the current dataset and the records of one group
CurrentExclusions == Exclusions(timeseries, index, time_buffer)

RecordsOf(recs, key) ==
    SelectSeq(recs, LAMBDA r : <<r[1], r[2], r[3]>> = key)

\* the timestamps of the Excluded samples of one group
GroupTimes(excl, key, buf) ==
    {excl[i][4] + buf : i \in {j \in 1..Len(excl) :
                                <<excl[j][1], excl[j][2], excl[j][3]>> = key}}

Exported == pc = "ui" /\ msg = ExportedMsg

\* C3: within each (mast, sensor, reason) group every input timestamp lies
\* within exactly one output interval of the group, every output interval has
\* start <= end, and the output intervals of the group are pairwise disjoint.
C3_CoverDisjoint ==
    Exported =>
        \A key \in GroupKeys(CurrentExclusions) :
            LET recs == RecordsOf(merged, key)
            IN  /\ \A t \in GroupTimes(CurrentExclusions, key, time_buffer) :
                      Cardinality({i \in 1..Len(recs) :
                                     recs[i][4] <= t /\ t <= recs[i][5]}) = 1
                /\ \A i \in 1..Len(recs) : recs[i][4] <= recs[i][5]
                /\ \A i, j \in 1..Len(recs) :
                      i # j => (recs[i][5] < recs[j][4] \/ recs[j][5] < recs[i][4])

\* a group of at least three events exported as two records
C3_Witness ==
    /\ Exported
    /\ time_buffer > 0
    /\ \E key \in GroupKeys(CurrentExclusions) :
          /\ Len(GroupRanges(CurrentExclusions, key)) >= 3
          /\ Len(RecordsOf(merged, key)) = 2

\* C4: two events of one group at t1 <= t2 with buffer b give the single
\* record [t1-b, t2+b] when t2-b <= t1+b (equality and b = 0 included) and
\* the records [t1-b, t1+b], [t2-b, t2+b] otherwise; 10:00 and 10:15 with
\* buffer 10 give [09:50,10:25]; 10:00 and 11:00 with buffer 5 give
\* [09:55,10:05] and [10:55,11:05].
C4_InclusiveMerge ==
    Exported =>
        \A key \in GroupKeys(CurrentExclusions) :
            LET ranges == GroupRanges(CurrentExclusions, key)
                recs   == RecordsOf(merged, key)
                got    == [i \in 1..Len(recs) |-> <<recs[i][4], recs[i][5]>>]
                b      == time_buffer
                t1     == Min(ranges[1][1], ranges[2][1]) + b
                t2     == Max(ranges[1][1], ranges[2][1]) + b
                at(h, m) == parse_from_str(<<h, m>>)
            IN  Len(ranges) = 2 =>
                  /\ got = IF t2 - b <= t1 + b THEN << <<t1 - b, t2 + b>> >>
                           ELSE << <<t1 - b, t1 + b>>, <<t2 - b, t2 + b>> >>
                  /\ (t1 = at(10, 0) /\ t2 = at(10, 15) /\ b = 10)
                        => got = << <<at(9, 50), at(10, 25)>> >>
                  /\ (t1 = at(10, 0) /\ t2 = at(11, 0) /\ b = 5)
                        => got = << <<at(9, 55), at(10, 5)>>,
                                    <<at(10, 55), at(11, 5)>> >>

\* two events whose buffered intervals share exactly one instant, merged
C4_Witness ==
    /\ Exported
    /\ \E key \in GroupKeys(CurrentExclusions) :
          LET ranges == GroupRanges(CurrentExclusions, key)
          IN  /\ Len(ranges) = 2
              /\ ranges[1][1] # ranges[2][1]
              /\ Max(ranges[1][1], ranges[2][1])
                    = Min(ranges[1][2], ranges[2][2])
              /\ Len(RecordsOf(merged, key)) = 1

\* the dataset with its rows and its series rearranged
RowOrders == IterationOrders(1..Len(index))

SeriesOrders == IterationOrders(1..Len(timeseries))

Rearranged(rows, sers) ==
    [k \in 1..Len(sers) |->
        TimeSeries(timeseries[sers[k]].name,
                   [i \in 1..Len(rows) |-> timeseries[sers[k]].data[rows[i]]])]

RecordSet(recs) ==
    {<<recs[i][1], recs[i][2], recs[i][3], recs[i][4], recs[i][5]>> :
        i \in 1..Len(recs)}

\* C5: consolidation does not depend on the order of its input events: for
\* every permutation of the sequence of exclusion events, and for every
\* rearrangement of the rows and of the series of the dataset,
\* export_exclusions yields the same set of (group key, start, end) records.
C5_OrderIndependent ==
    Exported =>
      /\ \A perm \in IterationOrders(1..Len(CurrentExclusions)) :
            LET excl == [i \in 1..Len(perm) |-> CurrentExclusions[perm[i]]]
                order == CHOOSE o \in IterationOrders(GroupKeys(excl)) : TRUE
            IN  RecordSet(Merged(excl, order, 0)) = RecordSet(merged)
      /\ \A rows \in RowOrders : \A sers \in SeriesOrders :
            LET excl == Exclusions(Rearranged(rows, sers),
                                   [i \in 1..Len(rows) |-> index[rows[i]]],
                                   time_buffer)
                keys == GroupKeys(excl)
            IN  \A order \in IterationOrders(keys) :
                    RecordSet(Merged(excl, order, 0)) = RecordSet(merged)

\* an export of a group whose events arrive in descending time order and are
\* exported as separate records
C5_Witness ==
    /\ Exported
    /\ \E key \in GroupKeys(CurrentExclusions) :
          LET ranges == GroupRanges(CurrentExclusions, key)
          IN  /\ Len(ranges) >= 2
              /\ ranges[1][1] > ranges[2][1]
              /\ Len(RecordsOf(merged, key)) = 2

WithoutNow(recs) ==
    [i \in 1..Len(recs) |->
        <<recs[i][1], recs[i][2], recs[i][3], recs[i][4], recs[i][5]>>]

\* C6: two exports of the same dataset with the same buffer write the records
\* of the different groups in the same order, and inside each group the
\* records appear with strictly increasing start times.
C6_DeterministicOrder ==
    [][(msg' = ExportedMsg /\ pc = "ui") =>
         /\ \A i, j \in 1..Len(merged') :
               (i < j /\ <<merged'[i][1], merged'[i][2], merged'[i][3]>>
                          = <<merged'[j][1], merged'[j][2], merged'[j][3]>>)
                    => merged'[i][4] < merged'[j][4]
         /\ (msg = ExportedMsg /\ timeseries' = timeseries /\ index' = index
                /\ time_buffer' = time_buffer)
               => WithoutNow(merged') = WithoutNow(merged)]_vars

----------------------------------------------------------------------------
(* Claims about the classifier and the intersection primitive *)

\* C1: for the square (0,0),(0,10),(10,10),(10,0), check_inside_curve
\* returns true for the query point (5,5) and false for (15,15).
C1_SquareClassification ==
    (pc = "return" /\ curve = Square /\ data = << <<5, 5>>, <<15, 15>> >>)
        => is_inside = <<TRUE, FALSE>>

\* C2: for the triangle (0,0),(4,0),(2,4), check_inside_curve returns true
\* for the query point (2,1) and false for (5,5).
C2_TriangleClassification ==
    (pc = "return" /\ curve = Triangle /\ data = << <<2, 1>>, <<5, 5>> >>)
        => is_inside = <<TRUE, FALSE>>

\* C7: do_intersect is symmetric in its two segments:
\* do_intersect(a,b,c,d) = do_intersect(c,d,a,b), degenerate and collinear
\* configurations included.
C7_IntersectSymmetric ==
    pc = "return" /\ args # <<>>
        => hit = do_intersect(args[3], args[4], args[1], args[2])

\* a degenerate first segment lying on a proper second segment
C7_Witness ==
    /\ pc = "return" /\ args # <<>>
    /\ args[1] = args[2] /\ args[3] # args[4] /\ args[1] # args[3]
    /\ args[1] # args[4]
    /\ hit

\* C8: check_inside_curve on the curve with its point order reversed returns
\* the same boolean sequence as on the original curve.
C8_ReversalInvariant ==
    pc = "return" /\ curve # <<>>
        => is_inside = check_inside_curve(Reverse(curve), data)

\* a curve that is not its own reverse, with a query inside and one outside
C8_Witness ==
    /\ pc = "return" /\ curve # <<>>
    /\ Reverse(curve) # curve
    /\ \E i, j \in 1..Len(is_inside) : is_inside[i] /\ ~is_inside[j]

\* the closed segments a-b and c-d have a common point: a + s(b-a) =
\* c + t(d-c) for some s = i/D, t = j/D in [0,1]
MaxDen == 8

SegmentsMeet(a, b, c, d) ==
    \E D \in 1..MaxDen : \E i, j \in 0..D :
        /\ D * a[1] + i * (b[1] - a[1]) = D * c[1] + j * (d[1] - c[1])
        /\ D * a[2] + i * (b[2] - a[2]) = D * c[2] + j * (d[2] - c[2])

\* C9: do_intersect(p1,q1,p2,q2) is true exactly when the closed segments
\* p1-q1 and p2-q2 have at least one common point.
C9_IntersectIffCommonPoint ==
    pc = "return" /\ args # <<>>
        => (hit <=> SegmentsMeet(args[1], args[2], args[3], args[4]))

\* two collinear segments that are separated: no common point, result false
C9_Witness ==
    /\ pc = "return" /\ args # <<>>
    /\ args[1] # args[2] /\ args[3] # args[4]
    /\ orientation(args[1], args[2], args[3]) = "Colinear"
    /\ orientation(args[1], args[2], args[4]) = "Colinear"
    /\ ~hit

----------------------------------------------------------------------------
(* Claims on the samples of the loaded series: Spec *)

\* what one step may do to one sample: a Valid(v) stays or becomes
\* Excluded(v, r), an Excluded or Missing sample stays as it is
SampleStep(old, new, r) ==
    IF IsValid(old) THEN new = old \/ new = Excluded(old[2], r)
    ELSE new = old

\* C10: across any sequence of axis selections, draw, clear and exclude
\* actions on a loaded file, the only change a sample ever undergoes is
\* Valid(v) -> Excluded(v, r) with the same v and r the reason text in
\* effect at that step; an Excluded sample never changes its value or its
\* reason (also when a later exclusion with another reason hits it), and a
\* Missing sample never changes.
C10_SamplesOnlyGetExcluded ==
    [][\/ timeseries' = timeseries
       \/ /\ Len(timeseries') = Len(timeseries)
          /\ \A k \in 1..Len(timeseries) :
               /\ timeseries'[k].name = timeseries[k].name
               /\ Len(timeseries'[k].data) = Len(timeseries[k].data)
               /\ \A i \in 1..Len(timeseries[k].data) :
                    SampleStep(timeseries[k].data[i],
                               timeseries'[k].data[i], reason)]_vars

\* the frame that just ended excluded with a mask that is true at a sample
\* of a series it wrote to, that sample being Excluded for another reason
\* since an earlier exclusion
C10_Witness ==
    /\ pc = "ui" /\ is_inside # <<>>
    /\ \E axis \in {a \in {xaxis} : excludex}
                     \cup {a \in {yaxis} : excludey} :
        \E i \in 1..Len(is_inside) :
            /\ is_inside[i]
            /\ IsExcluded(timeseries[axis + 1].data[i])
            /\ timeseries[axis + 1].data[i][3] # reason

----------------------------------------------------------------------------
(* Claims on exclude_data: Spec *)

\* C11: in every exclude action that reaches the classifier, an index whose
\* x and y samples are not both Valid is converted to the point (-100,-100),
\* is never classified inside, and no sample at that index is changed by
\* the action.
C11_SentinelNeverInside ==
    [][\A i \in 1..Len(data') :
          ~(IsValid(timeseries[xaxis + 1].data[i])
              /\ IsValid(timeseries[yaxis + 1].data[i]))
          => /\ data'[i] = outside
             /\ ~is_inside'[i]
             /\ \A k \in 1..Len(timeseries) :
                  timeseries'[k].data[i] = timeseries[k].data[i]]_vars

\* C12: an exclude action whose precondition fails (empty reason, fewer than
\* 3 curve points, or curve not marked closed) does not invoke the
\* classifier and changes nothing but the message: the samples of all
\* series, the curve, its closed flag and the list of exclusion reasons
\* stay as they are.
C12_RejectedExcludeOnlySetsMsg ==
    [][(/\ ExcludeData
        /\ (\/ reason = ""
            \/ Len(exclusion_curve) < 3
            \/ ~exclusion_curve_is_closed))
       => /\ UNCHANGED <<xaxis, yaxis, excludex, excludey, file_loaded,
                         timeseries, index, reason, exclusion_names,
                         time_buffer, exclusion_curve,
                         exclusion_curve_is_closed, merged, panicked>>
          /\ curve' = <<>> /\ data' = <<>> /\ is_inside' = <<>>]_vars

\* an exclude was rejected for an open curve of 3 or more points, with a
\* reason typed and samples excluded by an earlier action
C12_Witness ==
    /\ pc = "ui"
    /\ msg = "The exclusion area must be closed"
    /\ reason # ""
    /\ Len(exclusion_curve) >= 3
    /\ ~exclusion_curve_is_closed
    /\ exclusion_names # <<>>
    /\ \E k \in 1..Len(timeseries) : \E i \in 1..Len(timeseries[k].data) :
          IsExcluded(timeseries[k].data[i])

\* C13: every curve exclude_data passes to check_inside_curve has at least
\* 3 points, all pairwise distinct: the stored curve holds no repeated
\* point, its only closing edge being the implicit one from the last point
\* back to the first.
C13_CurveOfDistinctPoints ==
    pc = "ui" /\ curve # <<>>
        => /\ Len(curve) >= 3
           /\ \A i, j \in 1..Len(curve) : i # j => curve[i] # curve[j]

----------------------------------------------------------------------------
(* Claims on loading: SpecLoad *)

\* C14: after any sequence of loads (successful or failing), axis
\* selections and drawing, whenever file_loaded is true xaxis and yaxis are
\* valid indices into timeseries, so that the plotting of a frame never
\* indexes a series out of range (the process does not panic).
C14_AxesInRange ==
    pc = "ui" /\ file_loaded
        => /\ xaxis < Len(timeseries)
           /\ yaxis < Len(timeseries)
           /\ ~panicked

====
